---- MODULE Spec2Model ----
(***************************************************************************)
(* Model of remote_dread_lua_console.lua_executor.LuaExecutor: the session *)
(* object (socket holder, request number, last error, the two locks), the  *)
(* coroutines connect / run_lua_code / send_keep_alive / read_loop cut at  *)
(* their await points, the packet parser parse_packet, and the peer.       *)
(* Bytes are integers 0..255; a socket is identified by the order in which *)
(* it was opened.                                                          *)
(***************************************************************************)
EXTENDS Integers, Sequences, FiniteSets, TLC

\* ---------------------------------------------------------------- bounds
MaxSockets == 1
MaxReconnectSockets == 2
MaxFrames == 2
MaxSteadyFrames == 3
MaxUserOps == 1
MaxBuffered == 0
MaxCycles == 258

\* ------------------------------------------------------ program constants
PACKET_HANDSHAKE == 1
PACKET_LOG_MESSAGE == 2
PACKET_REMOTE_LUA_EXEC == 3
PACKET_KEEP_ALIVE == 4
LOGGING == 1
InitialApiVersion == 1
InitialBufferSize == 4096
RequestNumberModulus == 256

Socks == 1..(IF MaxSockets > MaxReconnectSockets THEN MaxSockets ELSE MaxReconnectSockets)
Hosts == {"h1", "h2"}
Conns == {"c1"}
Runs == {"r1", "r2"}

\* exception classes that occur in the coroutines
Caught == {"OSError", "TimeoutError", "struct.error", "UnicodeError", "RuntimeError"}

VARIABLES
    ip,                 \* LuaExecutor._ip
    socket,             \* LuaExecutor._socket: a DreadSocketHolder, id 0 = None
    socket_error,       \* LuaExecutor._socket_error ("" = None)
    connection_lock,    \* _connection_lock is held
    run_code_lock,      \* _run_code_lock is held
    pending_messages,   \* LuaExecutor.pending_messages
    timers,             \* armed QTimer.singleShot(200, log_for_window.emit)
    changed,            \* connection_changed.emit() by disconnect() so far
    history_widget,     \* ConsoleWindow.history_widget: the lines taken from the queue
    opened,             \* number of sockets opened so far
    sockHost,           \* host each socket was opened to
    closed,             \* sockets whose writer.close() was called
    net,                \* peer side of each socket: "open" or "eof"
    inbuf,              \* bytes the peer sent that no read has returned yet
    sent,               \* handshake and exec packets written to each socket
    kaWrote,            \* sockets each keep-alive task wrote its packet to
    srvNum,             \* the peer's own request counter for each socket
    framesSent,         \* frames the peer sent in total
    userOps,            \* disconnect()/ip changes made by the user so far
    conn,               \* connect_or_raise() callers, inside connect()
    run,                \* run_lua_code() callers
    ka,                 \* send_keep_alive tasks, by the socket of their connect
    rdr,                \* read_loop tasks, by the socket of their connect
    cycles,             \* header checks passed on the held holder
    answered,           \* RemoteExec responses read to their end, per socket
    probeReply,         \* the probe reply the last completed connect() parsed
    lost,               \* sockets the peer closed under a blocked read loop
    lossNotes           \* connection_changed emitted for a failure, per socket

sessVars == <<ip, socket, socket_error, connection_lock, run_code_lock>>
sinkVars == <<pending_messages, timers, changed, history_widget>>
netVars == <<opened, sockHost, closed, net, inbuf, sent, kaWrote, srvNum, framesSent>>
taskVars == <<conn, run, ka, rdr>>
ghostVars == <<cycles, answered, probeReply, lost, lossNotes>>
vars == <<sessVars, sinkVars, netVars, taskVars, userOps, ghostVars>>

\* ------------------------------------------------------------- data types
NoSocket == [id |-> 0, api_version |-> 0, buffer_size |-> 0, request_number |-> 0]

\* DreadSocketHolder(reader, writer, int(1), int(4096), 0)
DreadSocketHolder(s) ==
    [id |-> s, api_version |-> InitialApiVersion,
     buffer_size |-> InitialBufferSize, request_number |-> 0]

is_connected == socket.id # 0

NoRd == [at |-> "-", sock |-> 0, tag |-> 0, ok |-> FALSE, hdr |-> <<>>, n |-> 0, timed |-> FALSE]
NoResp == [some |-> FALSE, data |-> <<>>]
IdleConn == [pc |-> "idle", ip |-> "", sock |-> 0, rd |-> NoRd, ret |-> "-", exc |-> "",
             signal |-> FALSE]
IdleRun == [pc |-> "idle", sock |-> 0, ret |-> "-"]
NoKa == [pc |-> "none", sock |-> 0, exc |-> ""]
NoRdr == [pc |-> "none", rd |-> NoRd, exc |-> ""]

Min(a, b) == IF a < b THEN a ELSE b

Drop(seq, k) == SubSeq(seq, k + 1, Len(seq))

\* ---------------------------------------------------------- packet codec
\* int.to_bytes(length=4, byteorder='little')
ToBytes4(n) == <<n % 256, (n \div 256) % 256, (n \div 65536) % 256, (n \div 16777216) % 256>>

\* build_packet
build_packet(type, msg) ==
    <<type>>
    \o (IF type = PACKET_REMOTE_LUA_EXEC THEN ToBytes4(Len(msg)) ELSE <<>>)
    \o (IF type \in {PACKET_REMOTE_LUA_EXEC, PACKET_HANDSHAKE} THEN msg ELSE <<>>)

\* struct.unpack("<l", b) for four bytes b
UnpackLong(b) ==
    b[1] + 256 * b[2] + 65536 * b[3]
    + 16777216 * (IF b[4] >= 128 THEN b[4] - 256 ELSE b[4])

\* the increment without the wrap at 256
NextRequestNumberNoWrap(n) == n + 1

\* (request_number + 1) % 256
NextRequestNumber(n) == (n + 1) % RequestNumberModulus

\* ------------------------------------------------------------ the reader
Eof(s) == net[s] = "eof" \/ s \in closed

\* number of tasks suspended in a read of socket s
ReadersOf(s) ==
    Cardinality({c \in Conns : conn[c].rd.sock = s}) +
    Cardinality({k \in Socks : rdr[k].rd.sock = s})

\* StreamReader.read while another coroutine is inside _wait_for_data; prev
\* is the socket whose read the calling task has just been resumed from and
\* used the number of bytes that read returned
DoubleWait(prev, used, s, n) ==
    /\ n # 0
    /\ Len(inbuf[s]) = (IF prev = s THEN used ELSE 0)
    /\ ~Eof(s)
    /\ ReadersOf(s) - (IF prev = s THEN 1 ELSE 0) > 0

\* what asyncio.wait_for(reader.read(n), timeout) can give on socket s: the
\* bytes that have arrived by then (any non-empty prefix of what the peer
\* sent, at most n), nothing at end of stream, or the timeout
ReadResults(s, n, timed) ==
    IF n = 0 THEN {[exc |-> "", d |-> <<>>]}
    ELSE IF n < 0 THEN (IF Eof(s) THEN {[exc |-> "", d |-> inbuf[s]]} ELSE {})
    ELSE (IF inbuf[s] # <<>>
          THEN {[exc |-> "", d |-> SubSeq(inbuf[s], 1, j)] : j \in 1..Min(n, Len(inbuf[s]))}
          ELSE IF Eof(s) THEN {[exc |-> "", d |-> <<>>]}
          ELSE {})
         \cup (IF timed THEN {[exc |-> "TimeoutError", d |-> <<>>]} ELSE {})

Outcome(kind, exc, rd, resp, msgs) ==
    [kind |-> kind, exc |-> exc, rd |-> rd, inc |-> FALSE, resp |-> resp, msgs |-> msgs]

Raise(e) == Outcome("raise", e, NoRd, NoResp, <<>>)

Done(resp, msgs) == Outcome("done", "", NoRd, resp, msgs)

\* await asyncio.wait_for(self._socket.reader.read(n), timeout)
Await(prev, used, sk, at, tag, ok, hdr, n, timed) ==
    IF sk.id = 0 THEN Raise("AttributeError")
    ELSE IF DoubleWait(prev, used, sk.id, n) THEN Raise("RuntimeError")
    ELSE Outcome("await", "",
                 [at |-> at, sock |-> sk.id, tag |-> tag, ok |-> ok, hdr |-> hdr,
                  n |-> n, timed |-> timed],
                 NoResp, <<>>)

\* read_packet_type
read_packet_type(prev, used, sk) == Await(prev, used, sk, "type", 0, FALSE, <<>>, 1, FALSE)

\* check_header, after its read returned d; TRUE when the number matches
HeaderMatches(d, sk) == d[1] = sk.request_number

check_header(d, sk) ==
    IF d = <<>> THEN "IndexError"
    ELSE IF sk.id = 0 THEN "AttributeError"
    ELSE IF ~HeaderMatches(d, sk) THEN "RuntimeError"
    ELSE ""

\* parse_packet after read_packet_type returned d: the match on the type
on_packet_type(rd, d, sk) ==
    IF d = <<>> THEN Raise("IndexError")
    ELSE IF d[1] \in {PACKET_HANDSHAKE, PACKET_REMOTE_LUA_EXEC}
         THEN Await(rd.sock, Len(d), sk, "num", d[1], FALSE, <<>>, 1, FALSE)
    ELSE IF d[1] = PACKET_LOG_MESSAGE
         THEN Await(rd.sock, Len(d), sk, "hdr", d[1], FALSE, <<>>, 4, TRUE)
    ELSE Done(NoResp, <<>>)

\* parse_packet after check_header's read returned d
on_request_number(rd, d, sk) ==
    IF check_header(d, sk) # "" THEN Raise(check_header(d, sk))
    ELSE IF rd.tag = PACKET_HANDSHAKE
         THEN [Done(NoResp, <<>>) EXCEPT !.inc = TRUE]
    ELSE [Await(rd.sock, Len(d), sk, "hdr", rd.tag, FALSE, <<>>, 4, TRUE) EXCEPT !.inc = TRUE]

\* parse_packet after the read(4) of the success flag and length returned d
on_length(rd, d, sk) ==
    IF rd.tag = PACKET_REMOTE_LUA_EXEC
    THEN IF d = <<>> THEN Raise("IndexError")
         ELSE IF Len(d) # 4 THEN Raise("struct.error")
         ELSE Await(rd.sock, Len(d), sk, "data", rd.tag, d[1] # 0, d,
                    UnpackLong(<<d[2], d[3], d[4], 0>>), TRUE)
    ELSE IF Len(d) # 4 THEN Raise("struct.error")
         ELSE Await(rd.sock, Len(d), sk, "data", rd.tag, FALSE, d, UnpackLong(d), TRUE)

\* on_data raising LuaException for a response without the success flag
on_data_raising(rd, d) ==
    IF rd.tag = PACKET_REMOTE_LUA_EXEC
    THEN IF rd.ok
         THEN Done([some |-> TRUE, data |-> d], <<[k |-> "Execute response", d |-> d]>>)
         ELSE Raise("LuaException")
    ELSE Done([some |-> TRUE, data |-> d], <<[k |-> "Log", d |-> d]>>)

\* parse_packet after the read(length) returned d: the message and the result
on_data(rd, d) ==
    IF rd.tag = PACKET_REMOTE_LUA_EXEC
    THEN IF rd.ok
         THEN Done([some |-> TRUE, data |-> d], <<[k |-> "Execute response", d |-> d]>>)
         ELSE Done([some |-> TRUE, data |-> rd.hdr], <<[k |-> "lua error", d |-> <<>>]>>)
    ELSE Done([some |-> TRUE, data |-> d], <<[k |-> "Log", d |-> d]>>)

\* parse_packet (with _read_response) resumed at rd with the bytes d, the
\* session holding sk
parse_packet(rd, d, sk) ==
    CASE rd.at = "type" -> on_packet_type(rd, d, sk)
      [] rd.at = "num" -> on_request_number(rd, d, sk)
      [] rd.at = "hdr" -> on_length(rd, d, sk)
      [] rd.at = "data" -> on_data(rd, d)

\* the holder after parse_packet's assignment to request_number
Bump(sk, o) ==
    IF o.inc THEN [sk EXCEPT !.request_number = NextRequestNumber(sk.request_number)]
    ELSE sk

\* emit_new_message assigning the new lines instead of appending them
EmitPendingOverwriting(msgs) == IF msgs = <<>> THEN pending_messages ELSE msgs

\* emit_new_message, for each message of msgs
EmitPending(msgs) == pending_messages \o msgs

EmitTimers(msgs) ==
    IF msgs # <<>> /\ Len(pending_messages) > 0 THEN timers + 1 ELSE timers

\* connection_changed emitted by the handler of a failed drain on socket s,
\* counted when s is a socket the peer closed under the read loop
NotedLoss(s) == IF s \in lost THEN [lossNotes EXCEPT ![s] = @ + 1] ELSE lossNotes

\* disconnect() calling close() without the test for None
DisconnectClosedUnguarded == closed \cup {socket.id}

\* disconnect(): the part on the session and the socket
DisconnectClosed == IF socket.id # 0 THEN closed \cup {socket.id} ELSE closed


\* --------------------------------------------------------------- the peer
ProbeOk == <<51, 44, 52, 44, 116>>          \* "3,4,t"
Payloads == {ProbeOk}

\* server answers: [type][request number] and
\* [type][request number][success][length:3][answer]
HandshakeAck(n) == <<PACKET_HANDSHAKE, n>>

ExecResponse(n, flag, p) ==
    <<PACKET_REMOTE_LUA_EXEC, n, flag, Len(p) % 256, (Len(p) \div 256) % 256,
      (Len(p) \div 65536) % 256>> \o p

LogMessage(p) == <<PACKET_LOG_MESSAGE>> \o ToBytes4(Len(p)) \o p

\* frames carrying the peer's request counter n
Numbered(n) ==
    {HandshakeAck(n)} \cup {ExecResponse(n, 1, p) : p \in Payloads}
    \cup {ExecResponse(n, 0, <<101>>)}

Init ==
    /\ ip = "h1"
    /\ socket = NoSocket
    /\ socket_error = ""
    /\ connection_lock = FALSE
    /\ run_code_lock = FALSE
    /\ pending_messages = <<>>
    /\ timers = 0
    /\ changed = 0
    /\ history_widget = <<>>
    /\ opened = 0
    /\ sockHost = [s \in Socks |-> ""]
    /\ closed = {}
    /\ net = [s \in Socks |-> "open"]
    /\ inbuf = [s \in Socks |-> <<>>]
    /\ sent = [s \in Socks |-> <<>>]
    /\ kaWrote = [k \in Socks |-> {}]
    /\ srvNum = [s \in Socks |-> 0]
    /\ framesSent = 0
    /\ userOps = 0
    /\ conn = [c \in Conns |-> IdleConn]
    /\ run = [r \in Runs |-> IdleRun]
    /\ ka = [k \in Socks |-> NoKa]
    /\ rdr = [k \in Socks |-> NoRdr]
    /\ cycles = 0
    /\ answered = [s \in Socks |-> 0]
    /\ probeReply = NoResp
    /\ lost = {}
    /\ lossNotes = [s \in Socks |-> 0]

\* the peer writes one frame; wrong is added to its counter in the frame
ServerSend(s, wrong, limit) ==
    /\ s <= opened /\ net[s] = "open" /\ s \notin closed
    /\ Len(inbuf[s]) <= MaxBuffered
    /\ framesSent < limit
    /\ \E f \in Numbered((srvNum[s] + wrong) % 256) :
          /\ inbuf' = [inbuf EXCEPT ![s] = @ \o f]
          /\ srvNum' = [srvNum EXCEPT ![s] = (@ + 1) % 256]
    /\ framesSent' = framesSent + 1
    /\ UNCHANGED <<sessVars, sinkVars, opened, sockHost, kaWrote, closed, net, sent,
                   taskVars, userOps, ghostVars>>

\* the peer of the held socket sends a handshake answer carrying its counter
ServerAck(s) ==
    /\ s = socket.id /\ net[s] = "open" /\ s \notin closed
    /\ Len(inbuf[s]) <= MaxBuffered
    /\ cycles < MaxCycles
    /\ inbuf' = [inbuf EXCEPT ![s] = @ \o HandshakeAck(srvNum[s])]
    /\ srvNum' = [srvNum EXCEPT ![s] = (@ + 1) % 256]
    /\ UNCHANGED <<sessVars, sinkVars, opened, sockHost, kaWrote, closed, net, sent,
                   framesSent, taskVars, userOps, ghostVars>>

\* the peer pushes a log message, or a byte that is no known packet type
ServerPush(s, limit) ==
    /\ s <= opened /\ net[s] = "open" /\ s \notin closed
    /\ Len(inbuf[s]) <= MaxBuffered
    /\ framesSent < limit
    /\ \E f \in {LogMessage(<<104>>), <<PACKET_KEEP_ALIVE>>} :
          inbuf' = [inbuf EXCEPT ![s] = @ \o f]
    /\ framesSent' = framesSent + 1
    /\ UNCHANGED <<sessVars, sinkVars, opened, sockHost, kaWrote, closed, net, sent,
                   srvNum, taskVars, userOps, ghostVars>>

\* the peer closes its end of the connection
PeerClose(s) ==
    /\ s <= opened /\ net[s] = "open"
    /\ net' = [net EXCEPT ![s] = "eof"]
    /\ lost' = IF socket.id = s /\ \E k \in Socks : rdr[k].pc = "read" /\ rdr[k].rd.sock = s
               THEN lost \cup {s} ELSE lost
    /\ UNCHANGED <<sessVars, sinkVars, opened, sockHost, kaWrote, closed, inbuf, sent,
                   srvNum, framesSent, taskVars, userOps, cycles, answered,
                   probeReply, lossNotes>>


\* ------------------------------------------------- effects shared by reads
\* the bytes d leave the stream of the socket the read was issued on
Consume(rd, d) == inbuf' = [inbuf EXCEPT ![rd.sock] = Drop(@, Len(d))]

\* what the resumed parser did besides moving on: messages, counters
ParseEffects(rd, o) ==
    /\ pending_messages' = EmitPending(o.msgs)
    /\ timers' = EmitTimers(o.msgs)
    /\ answered' = IF o.kind = "done" /\ rd.tag = PACKET_REMOTE_LUA_EXEC
                   THEN [answered EXCEPT ![rd.sock] = @ + 1] ELSE answered
    /\ cycles' = IF o.inc THEN cycles + 1 ELSE cycles

Resume(rd, r) == IF r.exc # "" THEN Raise(r.exc) ELSE parse_packet(rd, r.d, socket)

\* ------------------------------------------------------------- connect()
\* the code of the API details request
ProbeCode == <<112>>

\* connect_or_raise on the result of connect(): TRUE when it reaches the emit
\* of connection_changed, FALSE when it raises before it
connect_or_raise(ret) == ret = "True"

\* connect() ends, returning ret or raising e, in its caller connect_or_raise
ConnReturn(ret, e) ==
    [IdleConn EXCEPT !.ret = ret, !.exc = e, !.signal = connect_or_raise(ret)]

\* connect() leaves through exception e: the except clause, or past it
ConnEnds(c, e, sk) ==
    /\ conn' = [conn EXCEPT ![c] = IF e \in Caught THEN ConnReturn("False", "")
                                   ELSE ConnReturn("raised", e)]
    /\ socket' = IF e \in Caught THEN NoSocket ELSE sk
    /\ socket_error' = IF e \in Caught THEN e ELSE socket_error
    /\ connection_lock' = FALSE

Commas(d) == Cardinality({i \in 1..Len(d) : d[i] = 44})

\* response.decode("ascii").split(",") unpacked into three names
DecodeSplit(resp) ==
    IF ~resp.some THEN "AttributeError"
    ELSE IF \E i \in 1..Len(resp.data) : resp.data[i] >= 128 THEN "UnicodeError"
    ELSE IF Commas(resp.data) # 2 THEN "ValueError"
    ELSE "ok"

\* async with self._connection_lock, up to await asyncio.open_connection
ConnectCall(c, limit) ==
    /\ conn[c].pc = "idle" /\ ~connection_lock
    /\ IF socket.id # 0
       THEN /\ conn' = [conn EXCEPT ![c] = ConnReturn("True", "")]
            /\ UNCHANGED <<socket_error, connection_lock>>
       ELSE /\ opened < limit
            /\ conn' = [conn EXCEPT ![c] = [IdleConn EXCEPT !.pc = "open", !.ip = ip]]
            /\ socket_error' = ""
            /\ connection_lock' = TRUE
    /\ UNCHANGED <<ip, socket, run_code_lock, sinkVars, netVars, run, ka, rdr,
                   userOps, ghostVars>>

\* open_connection returns; the holder is built and the handshake written.
\* The tasks an earlier connect() created with create_task have had their
\* first step by then: the loop runs them on its next iteration, before any
\* connection can be established.
ConnectOpened(c) ==
    /\ conn[c].pc = "open"
    /\ \A k \in Socks : ka[k].pc # "start" /\ rdr[k].pc # "start"
    /\ LET s == opened + 1 IN
          /\ opened' = s
          /\ sockHost' = [sockHost EXCEPT ![s] = conn[c].ip]
          /\ socket' = DreadSocketHolder(s)
          /\ sent' = [sent EXCEPT ![s] = <<build_packet(PACKET_HANDSHAKE, <<LOGGING>>)>>]
          /\ conn' = [conn EXCEPT ![c].pc = "hs_drain", ![c].sock = s]
    /\ cycles' = 0
    /\ probeReply' = NoResp
    /\ UNCHANGED <<ip, socket_error, connection_lock, run_code_lock, sinkVars,
                   closed, net, inbuf, kaWrote, srvNum, framesSent, run, ka, rdr,
                   userOps, answered, lost, lossNotes>>

\* open_connection raises
ConnectRefused(c) ==
    /\ conn[c].pc = "open"
    /\ ConnEnds(c, "OSError", socket)
    /\ UNCHANGED <<ip, run_code_lock, sinkVars, netVars, run, ka, rdr, userOps,
                   ghostVars>>

\* await wait_for(writer.drain()) returns and _read_response is entered
ConnectDrained(c) ==
    /\ conn[c].pc \in {"hs_drain", "probe_drain"}
    /\ LET o == read_packet_type(0, 0, socket) IN
          IF o.kind = "await"
          THEN /\ conn' = [conn EXCEPT ![c].rd = o.rd,
                                       ![c].pc = IF @ = "hs_drain" THEN "hs_read"
                                                 ELSE "probe_read"]
               /\ UNCHANGED <<socket, socket_error, connection_lock>>
          ELSE ConnEnds(c, o.exc, socket)
    /\ UNCHANGED <<ip, run_code_lock, sinkVars, netVars, run, ka, rdr, userOps,
                   ghostVars>>

\* await wait_for(writer.drain()) raises
ConnectDrainFails(c) ==
    /\ conn[c].pc \in {"hs_drain", "probe_drain"}
    /\ ConnEnds(c, "OSError", socket)
    /\ UNCHANGED <<ip, run_code_lock, sinkVars, netVars, run, ka, rdr, userOps,
                   ghostVars>>

\* a read of _read_response returns: the parser runs to its next await; after
\* the handshake answer the probe is written, after the probe answer connect
\* runs to its end
ConnectRead(c) ==
    /\ conn[c].pc \in {"hs_read", "probe_read"}
    /\ \E r \in ReadResults(conn[c].rd.sock, conn[c].rd.n, conn[c].rd.timed) :
        LET rd == conn[c].rd
            o == Resume(rd, r)
            sk == Bump(socket, o)
            e == DecodeSplit(o.resp)
        IN
        /\ Consume(rd, r.d)
        /\ ParseEffects(rd, o)
        /\ CASE o.kind = "await" ->
                  /\ conn' = [conn EXCEPT ![c].rd = o.rd]
                  /\ socket' = sk
                  /\ UNCHANGED <<socket_error, connection_lock, sent, ka, rdr, probeReply>>
             [] o.kind = "raise" ->
                  /\ ConnEnds(c, o.exc, sk)
                  /\ UNCHANGED <<sent, ka, rdr, probeReply>>
             [] o.kind = "done" /\ conn[c].pc = "hs_read" ->
                  /\ conn' = [conn EXCEPT ![c].rd = NoRd, ![c].pc = "probe_drain"]
                  /\ socket' = sk
                  /\ sent' = [sent EXCEPT ![conn[c].sock] =
                                Append(@, build_packet(PACKET_REMOTE_LUA_EXEC, ProbeCode))]
                  /\ UNCHANGED <<socket_error, connection_lock, ka, rdr, probeReply>>
             [] o.kind = "done" /\ conn[c].pc = "probe_read" /\ e # "ok" ->
                  /\ ConnEnds(c, e, sk)
                  /\ UNCHANGED <<sent, ka, rdr, probeReply>>
             [] o.kind = "done" /\ conn[c].pc = "probe_read" /\ e = "ok" ->
                  /\ ka' = [ka EXCEPT ![conn[c].sock] = [NoKa EXCEPT !.pc = "start"]]
                  /\ rdr' = [rdr EXCEPT ![conn[c].sock] = [NoRdr EXCEPT !.pc = "start"]]
                  /\ probeReply' = o.resp
                  /\ IF conn[c].ip # ip
                     THEN ConnEnds(c, "RuntimeError", sk)
                     ELSE /\ conn' = [conn EXCEPT ![c] = ConnReturn("True", "")]
                          /\ socket' = sk
                          /\ connection_lock' = FALSE
                          /\ UNCHANGED socket_error
                  /\ UNCHANGED sent
    /\ UNCHANGED <<ip, run_code_lock, changed, history_widget, opened, sockHost, kaWrote, closed, net,
                   srvNum, framesSent, run, userOps, lost, lossNotes>>


\* ------------------------------------------------------------ read_loop()
\* the loop test and the read_packet_type that follows it; prev and used as
\* in DoubleWait
ReadLoop(prev, used, sk) ==
    IF sk.id = 0 THEN [pc |-> "done", rd |-> NoRd, exc |-> ""]
    ELSE LET o == read_packet_type(prev, used, sk) IN
         IF o.kind = "await" THEN [pc |-> "read", rd |-> o.rd, exc |-> ""]
         ELSE [pc |-> "crashed", rd |-> NoRd, exc |-> o.exc]

\* the task created by connect() runs for the first time
ReaderStart(k) ==
    /\ rdr[k].pc = "start"
    /\ rdr' = [rdr EXCEPT ![k] = ReadLoop(0, 0, socket)]
    /\ UNCHANGED <<sessVars, sinkVars, netVars, conn, run, ka, userOps, ghostVars>>

\* a read of _read_response returns in the read loop
ReaderRead(k) ==
    /\ rdr[k].pc = "read"
    /\ \E r \in ReadResults(rdr[k].rd.sock, rdr[k].rd.n, rdr[k].rd.timed) :
        LET rd == rdr[k].rd
            o == Resume(rd, r)
            sk == Bump(socket, o)
        IN
        /\ Consume(rd, r.d)
        /\ ParseEffects(rd, o)
        /\ socket' = sk
        /\ rdr' = [rdr EXCEPT ![k] =
                     CASE o.kind = "await" -> [pc |-> "read", rd |-> o.rd, exc |-> ""]
                       [] o.kind = "raise" -> [pc |-> "crashed", rd |-> NoRd, exc |-> o.exc]
                       [] o.kind = "done" -> ReadLoop(rd.sock, Len(r.d), sk)]
    /\ UNCHANGED <<ip, socket_error, connection_lock, run_code_lock, changed, history_widget,
                   opened, sockHost, kaWrote, closed, net, sent, srvNum, framesSent,
                   conn, run, ka, userOps, probeReply, lost, lossNotes>>

\* ------------------------------------------------------- send_keep_alive()
\* the loop test of send_keep_alive
KeepAliveLoop(sk) ==
    IF sk.id = 0 THEN [pc |-> "done", sock |-> 0, exc |-> ""]
    ELSE [pc |-> "sleep", sock |-> 0, exc |-> ""]

KeepAliveStart(k) ==
    /\ ka[k].pc = "start"
    /\ ka' = [ka EXCEPT ![k] = KeepAliveLoop(socket)]
    /\ UNCHANGED <<sessVars, sinkVars, netVars, conn, run, rdr, userOps, ghostVars>>

\* asyncio.sleep(2) is over: self._socket.writer.write(...), then drain
KeepAliveWake(k) ==
    /\ ka[k].pc = "sleep"
    /\ IF socket.id = 0
       THEN /\ ka' = [ka EXCEPT ![k] = [pc |-> "crashed", sock |-> 0, exc |-> "AttributeError"]]
            /\ UNCHANGED kaWrote
       ELSE /\ ka' = [ka EXCEPT ![k] = [pc |-> "drain", sock |-> socket.id, exc |-> ""]]
            /\ build_packet(PACKET_KEEP_ALIVE, <<>>) = <<PACKET_KEEP_ALIVE>>
            /\ kaWrote' = [kaWrote EXCEPT ![k] = @ \cup {socket.id}]
    /\ UNCHANGED <<sessVars, sinkVars, opened, sockHost, closed, net, inbuf, sent,
                   srvNum, framesSent, conn, run, rdr, userOps, ghostVars>>

KeepAliveDrained(k) ==
    /\ ka[k].pc = "drain"
    /\ ka' = [ka EXCEPT ![k] = KeepAliveLoop(socket)]
    /\ UNCHANGED <<sessVars, sinkVars, netVars, conn, run, rdr, userOps, ghostVars>>

\* the drain raises: record the error, "Connection lost", disconnect()
KeepAliveDrainFails(k) ==
    /\ ka[k].pc = "drain"
    /\ socket_error' = "LuaException"
    /\ pending_messages' = EmitPending(<<[k |-> "Connection lost", d |-> <<>>]>>)
    /\ timers' = EmitTimers(<<[k |-> "Connection lost", d |-> <<>>]>>)
    /\ socket' = NoSocket
    /\ closed' = DisconnectClosed
    /\ changed' = changed + 1
    /\ ka' = [ka EXCEPT ![k] = KeepAliveLoop(NoSocket)]
    /\ lossNotes' = NotedLoss(ka[k].sock)
    /\ UNCHANGED <<ip, connection_lock, run_code_lock, history_widget, opened, sockHost,
                   kaWrote, net, inbuf, sent, srvNum, framesSent, conn, run, rdr,
                   userOps, cycles, answered, probeReply, lost>>

\* ---------------------------------------------------------- run_lua_code()
CodeOf(r) == IF r = "r1" THEN <<49>> ELSE <<50>>

\* async with self._run_code_lock, the write, up to await drain
RunCall(r) ==
    /\ run[r].pc = "idle" /\ run[r].ret = "-" /\ ~run_code_lock
    /\ IF socket.id = 0
       THEN /\ run' = [run EXCEPT ![r].ret = "AttributeError"]
            /\ UNCHANGED <<sent, run_code_lock>>
       ELSE /\ run' = [run EXCEPT ![r].pc = "drain", ![r].sock = socket.id]
            /\ sent' = [sent EXCEPT ![socket.id] =
                          Append(@, build_packet(PACKET_REMOTE_LUA_EXEC, CodeOf(r)))]
            /\ run_code_lock' = TRUE
    /\ UNCHANGED <<ip, socket, socket_error, connection_lock, sinkVars, opened,
                   sockHost, kaWrote, closed, net, inbuf, srvNum, framesSent, conn, ka,
                   rdr, userOps, ghostVars>>

\* the drain returns: the function ends without a return statement
RunDrained(r) ==
    /\ run[r].pc = "drain"
    /\ run' = [run EXCEPT ![r] = [pc |-> "idle", sock |-> 0, ret |-> "None"]]
    /\ run_code_lock' = FALSE
    /\ UNCHANGED <<ip, socket, socket_error, connection_lock, sinkVars, netVars,
                   conn, ka, rdr, userOps, ghostVars>>

\* the drain raises: record the error, disconnect(), raise it
RunDrainFails(r) ==
    /\ run[r].pc = "drain"
    /\ run' = [run EXCEPT ![r] = [pc |-> "idle", sock |-> 0, ret |-> "LuaException"]]
    /\ run_code_lock' = FALSE
    /\ socket_error' = "LuaException"
    /\ socket' = NoSocket
    /\ closed' = DisconnectClosed
    /\ changed' = changed + 1
    /\ lossNotes' = NotedLoss(run[r].sock)
    /\ UNCHANGED <<ip, connection_lock, pending_messages, timers, history_widget, opened,
                   sockHost, kaWrote, net, inbuf, sent, srvNum, framesSent, conn, ka, rdr,
                   userOps, cycles, answered, probeReply, lost>>

\* ------------------------------------------------- disconnect(), ip setter
Disconnect ==
    /\ userOps < MaxUserOps
    /\ userOps' = userOps + 1
    /\ socket' = NoSocket
    /\ closed' = DisconnectClosed
    /\ changed' = changed + 1
    /\ UNCHANGED <<ip, socket_error, connection_lock, run_code_lock,
                   pending_messages, timers, history_widget, opened, sockHost, kaWrote, net, inbuf, sent,
                   srvNum, framesSent, taskVars, ghostVars>>

SetIp(h) ==
    /\ userOps < MaxUserOps
    /\ userOps' = userOps + 1
    /\ socket' = NoSocket
    /\ closed' = DisconnectClosed
    /\ changed' = changed + 1
    /\ ip' = h
    /\ UNCHANGED <<socket_error, connection_lock, run_code_lock,
                   pending_messages, timers, history_widget, opened, sockHost, kaWrote, net, inbuf, sent,
                   srvNum, framesSent, taskVars, ghostVars>>

\* ------------------------------------------- the window: add_log_entries
\* history_widget.addItems(items)
addItems(items) == history_widget \o items

AddLogEntries ==
    /\ timers > 0
    /\ timers' = timers - 1
    /\ history_widget' = addItems(pending_messages)
    /\ pending_messages' = <<>>
    /\ UNCHANGED <<sessVars, changed, netVars, taskVars, userOps, ghostVars>>

Next ==
    \/ \E c \in Conns : ConnectCall(c, MaxSockets)
    \/ \E c \in Conns : ConnectOpened(c)
    \/ \E c \in Conns : ConnectRefused(c)
    \/ \E c \in Conns : ConnectDrained(c)
    \/ \E c \in Conns : ConnectDrainFails(c)
    \/ \E c \in Conns : ConnectRead(c)
    \/ \E k \in Socks : ReaderStart(k)
    \/ \E k \in Socks : ReaderRead(k)
    \/ \E k \in Socks : KeepAliveStart(k)
    \/ \E k \in Socks : KeepAliveWake(k)
    \/ \E k \in Socks : KeepAliveDrained(k)
    \/ \E k \in Socks : KeepAliveDrainFails(k)
    \/ \E r \in Runs : RunCall(r)
    \/ \E r \in Runs : RunDrained(r)
    \/ \E r \in Runs : RunDrainFails(r)
    \/ Disconnect
    \/ \E h \in Hosts : SetIp(h)
    \/ AddLogEntries
    \/ \E s \in Socks, wrong \in {0, 1} : ServerSend(s, wrong, MaxFrames)
    \/ \E s \in Socks : ServerPush(s, MaxFrames)
    \/ \E s \in Socks : PeerClose(s)

Spec == Init /\ [][Next]_vars

\* the session in steady state: one connect, the read loop, the callers of
\* run_lua_code and the peer
NextSteady ==
    \/ \E c \in Conns : ConnectCall(c, MaxSockets)
    \/ \E c \in Conns : ConnectOpened(c)
    \/ \E c \in Conns : ConnectDrained(c)
    \/ \E c \in Conns : ConnectRead(c)
    \/ \E k \in Socks : ReaderStart(k)
    \/ \E k \in Socks : ReaderRead(k)
    \/ \E r \in Runs : RunCall(r)
    \/ \E r \in Runs : RunDrained(r)
    \/ \E r \in Runs : RunDrainFails(r)
    \/ AddLogEntries
    \/ \E s \in Socks, wrong \in {0, 1} : ServerSend(s, wrong, MaxSteadyFrames)
    \/ \E s \in Socks : ServerPush(s, MaxSteadyFrames)

SpecSteady == Init /\ [][NextSteady]_vars

\* one session and a peer that keeps answering: the request number over
\* many request/response cycles
NextCycles ==
    \/ \E c \in Conns : ConnectCall(c, MaxSockets)
    \/ \E c \in Conns : ConnectOpened(c)
    \/ \E c \in Conns : ConnectDrained(c)
    \/ \E c \in Conns : ConnectRead(c)
    \/ \E k \in Socks : ReaderStart(k)
    \/ \E k \in Socks : ReaderRead(k)
    \/ AddLogEntries
    \/ \E s \in Socks, wrong \in {0, 1} : ServerSend(s, wrong, MaxFrames)
    \/ \E s \in Socks : ServerAck(s)

SpecCycles == Init /\ [][NextCycles]_vars

\* the peer pushing log lines at a connected, idle session, with every task
\* and every armed timer eventually run
NextLog ==
    \/ \E c \in Conns : ConnectCall(c, MaxSockets)
    \/ \E c \in Conns : ConnectOpened(c)
    \/ \E c \in Conns : ConnectDrained(c)
    \/ \E c \in Conns : ConnectRead(c)
    \/ \E k \in Socks : ReaderStart(k)
    \/ \E k \in Socks : ReaderRead(k)
    \/ AddLogEntries
    \/ \E s \in Socks : ServerSend(s, 0, MaxSteadyFrames)
    \/ \E s \in Socks : ServerPush(s, MaxSteadyFrames)

SpecLog ==
    /\ Init /\ [][NextLog]_vars
    /\ WF_vars(AddLogEntries)
    /\ \A c \in Conns : WF_vars(ConnectOpened(c) \/ ConnectDrained(c) \/ ConnectRead(c))
    /\ \A k \in Socks : WF_vars(ReaderStart(k) \/ ReaderRead(k))

\* connecting, disconnecting and connecting again, with the background tasks
\* of each connection
NextReconnect ==
    \/ \E c \in Conns : ConnectCall(c, MaxReconnectSockets)
    \/ \E c \in Conns : ConnectOpened(c)
    \/ \E c \in Conns : ConnectDrained(c)
    \/ \E c \in Conns : ConnectRead(c)
    \/ \E k \in Socks : ReaderStart(k)
    \/ \E k \in Socks : ReaderRead(k)
    \/ \E k \in Socks : KeepAliveStart(k)
    \/ \E k \in Socks : KeepAliveWake(k)
    \/ \E k \in Socks : KeepAliveDrained(k)
    \/ \E k \in Socks : KeepAliveDrainFails(k)
    \/ Disconnect
    \/ \E h \in Hosts : SetIp(h)
    \/ \E s \in Socks, wrong \in {0, 1} : ServerSend(s, wrong, MaxFrames)

SpecReconnect == Init /\ [][NextReconnect]_vars

TypeOK ==
    /\ socket.request_number \in 0..255
    /\ opened \in 0..MaxReconnectSockets
    /\ \A c \in Conns : conn[c].signal => conn[c].ret = "True"


\* ================================================================ claims

\* the exec requests written to s (the probe among them) whose responses
\* have not been read to their end
ExecWritten(s) ==
    Cardinality({i \in 1..Len(sent[s]) : sent[s][i][1] = PACKET_REMOTE_LUA_EXEC})

InFlight(s) == ExecWritten(s) - answered[s]

\* the i-th comma separated field of the bytes d
RECURSIVE FieldFrom(_, _, _)
FieldFrom(d, i, pos) ==
    IF pos > Len(d) THEN <<>>
    ELSE IF d[pos] = 44 THEN (IF i = 1 THEN <<>> ELSE FieldFrom(d, i - 1, pos + 1))
    ELSE IF i = 1 THEN <<d[pos]>> \o FieldFrom(d, i, pos + 1)
    ELSE FieldFrom(d, i, pos + 1)

Field(d, i) == FieldFrom(d, i, 1)

\* the number written in decimal ASCII digits
RECURSIVE DecimalValue(_)
DecimalValue(digits) ==
    IF digits = <<>> THEN 0
    ELSE 10 * DecimalValue(SubSeq(digits, 1, Len(digits) - 1))
         + (digits[Len(digits)] - 48)

\* C1: connect() never propagates an exception: whatever fails, it returns
\* false instead of raising.
C1_ConnectNeverRaises == \A c \in Conns : conn[c].ret # "raised"

\* C2: the value run_lua_code returns to its caller is never absent: a call
\* that returns gives the payload of its response.
C2_RunReturnsPayload == \A r \in Runs : run[r].ret # "None"

\* C3: at most one exec request is in flight: the requests written to a
\* socket whose responses are not yet consumed never exceed one.
C3_SingleFlight == \A s \in Socks : InFlight(s) <= 1

\* C6: after connect() returned true the stored api_version and buffer_size
\* are the version and buffer size of the probe reply.
C6_StoredApiDetails ==
    (is_connected /\ probeReply.some /\ \E c \in Conns : conn[c].ret = "True")
    => /\ socket.api_version = DecimalValue(Field(probeReply.data, 1))
       /\ socket.buffer_size = DecimalValue(Field(probeReply.data, 2))

\* C4: a handshake answer or exec response whose request number differs
\* from the session's leaves the session disconnected and the socket closed,
\* in connect() and in the read loop alike.
Mismatch(rd) ==
    /\ rd.at = "num" /\ is_connected
    /\ inbuf[rd.sock] # <<>> /\ inbuf[rd.sock][1] # socket.request_number

C4_MismatchDisconnects ==
    [][/\ \A k \in Socks :
            (rdr[k].pc = "read" /\ Mismatch(rdr[k].rd) /\ rdr'[k] # rdr[k])
            => (socket'.id = 0 /\ rdr[k].rd.sock \in closed')
       /\ \A c \in Conns :
            (Mismatch(conn[c].rd) /\ conn'[c] # conn[c])
            => (socket'.id = 0 /\ conn[c].rd.sock \in closed')]_vars

\* C5: the request number of the held holder is the number of header checks
\* passed in the session modulo 256, and lies in 0..255.
C5_RequestNumberIsCyclesMod256 ==
    is_connected => /\ socket.request_number = cycles % 256
                    /\ socket.request_number \in 0..255

C5_Witness ==
    is_connected /\ cycles = 257 /\ socket.request_number = 1

\* C7: the read loop consuming a RemoteExec response with successFlag 0
\* leaves the holder held and its socket open, the request number having
\* moved on by one when the header was checked and not since, and that read
\* loop goes on to read the next response from the held socket (no other
\* task being in a read of it).
FailedExec(rd) == rd.tag = PACKET_REMOTE_LUA_EXEC /\ rd.at = "data" /\ ~rd.ok

C7_FailedExecKeepsSession ==
    [][\A k \in Socks :
          LET rd == rdr[k].rd IN
          /\ (rdr[k].pc = "read" /\ rd.tag = PACKET_REMOTE_LUA_EXEC /\ rd.at = "num"
               /\ rdr'[k].pc = "read" /\ rdr'[k] # rdr[k])
              => /\ socket'.id = socket.id
                 /\ socket'.request_number = (socket.request_number + 1) % 256
          /\ (rdr[k].pc = "read" /\ rd.tag = PACKET_REMOTE_LUA_EXEC /\ rd.at = "hdr"
               /\ rdr'[k] # rdr[k])
              => socket' = socket
          /\ (rdr[k].pc = "read" /\ FailedExec(rd) /\ rdr'[k] # rdr[k]
               /\ rdr'[k].exc # "TimeoutError")
              => /\ socket' = socket
                 /\ closed' = closed
                 /\ changed' = changed
                 /\ run_code_lock' = run_code_lock
                 /\ (is_connected /\ ReadersOf(socket.id) = 1 /\ rd.sock = socket.id)
                       => /\ rdr'[k].pc = "read"
                          /\ rdr'[k].rd.at = "type"
                          /\ rdr'[k].rd.sock = socket.id]_vars

C7_Witness ==
    \E k \in Socks :
        /\ rdr[k].pc = "read" /\ rdr[k].rd.at = "type" /\ rdr[k].rd.sock = socket.id
        /\ is_connected /\ socket.id \notin closed
        /\ \E i \in 1..Len(pending_messages) : pending_messages[i].k = "lua error"
        /\ answered[socket.id] = 2 /\ socket.request_number = 3
        /\ ExecWritten(socket.id) >= 2

\* C8: a failed drain of an exec request, or a failed read of the flag,
\* length or payload of its response, leaves the session disconnected.
C8_BrokenExchangeDisconnects ==
    [][/\ \A r \in Runs :
            (run[r].pc = "drain" /\ run'[r].ret = "LuaException") => socket'.id = 0
       /\ \A k \in Socks :
            (rdr[k].pc = "read" /\ rdr[k].rd.tag = PACKET_REMOTE_LUA_EXEC
             /\ rdr[k].rd.at \in {"hdr", "data"}
             /\ rdr'[k].pc = "crashed" /\ rdr'[k].exc \in {"TimeoutError", "OSError"})
            => socket'.id = 0]_vars

\* C9: a connection the peer closed under the blocked read loop is notified
\* to the sink as lost once, not once per task.
C9_LossNotifiedOnce == \A s \in lost : lossNotes[s] <= 1

\* C10: a keep-alive task that wakes from its sleep after disconnect() ends
\* there, without writing a packet and without an unhandled error.
C10_KeepAliveEndsQuietly ==
    [][\A k \in Socks :
          (ka[k].pc = "sleep" /\ ~is_connected /\ ka'[k] # ka[k])
          => (ka'[k].pc = "done" /\ kaWrote' = kaWrote)]_vars

\* C11: a log line the read loop appended to pending_messages is eventually
\* taken out of the queue by add_log_entries, also when it was appended to
\* an empty queue and nothing is appended after it.
LogPending == \E i \in 1..Len(pending_messages) : pending_messages[i].k = "Log"

C11_LogLineDelivered == LogPending ~> ~LogPending

\* C12: every call of disconnect() leaves no socket held and closes the
\* socket that was held; called with no socket held it closes nothing and
\* leaves the socket reference, the set of closed sockets and the sockets
\* opened as they were.
C12_DisconnectIdempotent ==
    [][changed' # changed =>
         /\ socket' = NoSocket
         /\ socket.id # 0 => closed' = closed \cup {socket.id}
         /\ socket.id = 0 => /\ socket' = socket
                             /\ closed' = closed
                             /\ opened' = opened
                             /\ connection_lock' = connection_lock]_vars

C12_Witness == changed >= 2 /\ closed # {} /\ ~is_connected

\* C13: a socket connect() opened and the session no longer holds has been
\* closed, and a closed socket is not the one held.
C13_ReleasedSocketClosed ==
    /\ \A s \in 1..opened : s # socket.id => s \in closed
    /\ socket.id \notin closed

\* C14: at most one socket of the session is open (opened by connect() and
\* not closed) at any time.
C14_OneOpenSocket == Cardinality({s \in 1..opened : s \notin closed}) <= 1

\* C15: whenever the session is connected, the socket it holds was opened
\* to the host that is the current ip.
C15_ConnectedToCurrentHost == is_connected => sockHost[socket.id] = ip

\* C16: a connect_or_raise() whose connect() returned false has emitted
\* connection_changed.
C16_FailureNotifiesSink == \A c \in Conns : conn[c].ret = "False" => conn[c].signal

\* C17: while a connect() is between open_connection and the end of the
\* probe exchange, the session does not report connected and no
\* run_lua_code request is being written.
Connecting(c) == conn[c].pc \in {"hs_drain", "hs_read", "probe_drain", "probe_read"}

C17_ReadyOnlyAfterHandshake ==
    \A c \in Conns :
        Connecting(c) => /\ ~is_connected
                         /\ \A r \in Runs : run[r].pc # "drain"

\* C18: at most one keep-alive task and at most one read loop are live, the
\* keep-alive task of a connection writes only to that connection's socket
\* and its read loop reads only from that socket.
LiveKeepAlives == {k \in Socks : ka[k].pc \in {"start", "sleep", "drain"}}

LiveReaders == {k \in Socks : rdr[k].pc \in {"start", "read"}}

C18_TasksStayOnTheirConnection ==
    /\ Cardinality(LiveKeepAlives) <= 1
    /\ Cardinality(LiveReaders) <= 1
    /\ \A k \in Socks : kaWrote[k] \subseteq {k}
    /\ \A k \in Socks : rdr[k].pc = "read" => rdr[k].rd.sock = k

\* C19: when the peer has sent the whole of a length field or payload, the
\* read of the read loop that asked for its n bytes takes exactly those n
\* bytes off the stream, however the bytes arrive.
C19_ReadsTakeDeclaredLength ==
    [][\A k \in Socks :
          LET rd == rdr[k].rd IN
          (/\ rdr[k].pc = "read" /\ rd.at \in {"hdr", "data"} /\ rd.n > 0
           /\ Len(inbuf[rd.sock]) >= rd.n
           /\ rdr'[k] # rdr[k] /\ rdr'[k].exc # "TimeoutError")
          => inbuf'[rd.sock] = Drop(inbuf[rd.sock], rd.n)]_vars

\* C20: the lines in the window followed by the lines in pending_messages
\* are at every step the same sequence extended by the lines that step
\* appended (none lost, none twice, order kept), and add_log_entries leaves
\* the queue empty.
Lines == history_widget \o pending_messages

IsPrefix(a, b) == Len(a) <= Len(b) /\ SubSeq(b, 1, Len(a)) = a

C20_NoLineLostOrDuplicated ==
    [][/\ IsPrefix(Lines, Lines')
       /\ Len(Lines') - Len(Lines) <= 1
       /\ history_widget' # history_widget
            => /\ history_widget' = Lines
               /\ pending_messages' = <<>>
       /\ history_widget' = history_widget
            => /\ IsPrefix(pending_messages, pending_messages')
               /\ (\E k \in Socks : rdr[k].pc = "read" /\ rdr[k].rd.at = "data"
                                      /\ rdr'[k] # rdr[k] /\ rdr'[k].exc = "")
                    => Len(pending_messages') = Len(pending_messages) + 1]_vars

C20_Witness ==
    /\ Len(history_widget) >= 2
    /\ pending_messages # <<>>
    /\ \E i \in 1..Len(history_widget) : history_widget[i].k = "Log"

====
